---- MODULE Spec2Model ----
(***************************************************************************)
(* Model of the ft:: adapter of inc/freetype/freetype.hpp: the owners      *)
(* Library and Face, the view Glyph, the exceptions Exception and          *)
(* InvalidCharCodeException, and the FreeType calls each of them makes.    *)
(* The engine is an opaque collaborator: every return code it can produce  *)
(* is a nondeterministic input, its handles are small integers, and the    *)
(* glyph slot of face handle h is slot h.                                  *)
(***************************************************************************)
EXTENDS Integers, Sequences, FiniteSets, Bags, TLC

\* ---- bounds ----
MaxObjects == 4      \* Library, Face and Glyph objects constructed in one run

\* ---- program constants ----
default_dpi == 96
FT_Err_Invalid_Character_Code == 17
FT_RENDER_MODE_NORMAL == 0
FT_LOAD_DEFAULT == 0
PtScale == 64

\* A uint32_t is the pair <<hi, lo>> of its 16-bit halves, hi * 2^16 + lo; a
\* signed long of 32 bits has hi in -2^15 .. 2^15 - 1.
Limb == 2 ^ 16

\* ---- inputs ----
EngineCodes == {0, 6}
RenderModes == {FT_RENDER_MODE_NORMAL}
LoadFlags == {FT_LOAD_DEFAULT}
GlyphIndices == {1, 2}
CharCodes == {65, 8364}
Paths == {"DejaVuSans.ttf"}
FaceIndices == {0}
Overloads == {"cstr", "string", "path"}
SizeInputs == {<<<<0, 0>>, <<0, 768>>, 0, 96>>, <<<<0, 768>>, <<32768, 0>>, 72, 72>>}
PtInputs == {<<0, 12>>, <<1536, 1>>}   \* 12 and 2^26 + 2^25 + 1
DpiInputs == {0, 72}
LongWidths == {32, 64}

VARIABLES
    libraries,      \* the bag of live Library objects: [_library]
    faces,          \* the bag of live Face objects: [_face, by]
    glyphs,         \* the bag of live Glyph objects: [_glyph, of, loaded]
    nObjects,       \* objects constructed so far
    initialized,    \* library handles returned by a successful FT_Init_FreeType
    opened,         \* face handles returned by a successful FT_New_Face
    shutdowns,      \* library handle -> number of FT_Done_FreeType calls on it
    closes,         \* face handle -> number of FT_Done_Face calls on it
    slot,           \* glyph slot -> [index, bitmap] held by the engine
    longBits,       \* width of FT_Long / FT_F26Dot6 (signed long) in this build
    calls,          \* the engine calls made by the last operation, in order
    last            \* the last operation: [op, in, raised, ret]

vars == <<libraries, faces, glyphs, nObjects, initialized, opened,
          shutdowns, closes, slot, longBits, calls, last>>

objects == <<libraries, faces, glyphs, nObjects>>
engine == <<initialized, opened, shutdowns, closes, slot>>

LibraryHandles == 0 .. MaxObjects
FaceHandles == 0 .. MaxObjects
RawFaceHandles == {1}
Slots == FaceHandles
EmptySlot == [index |-> 0, bitmap |-> -1]

\* ---- engine helpers ----
FT_Error_String(error) ==
    CASE error = 0 -> "no error"
      [] error = 1 -> "cannot open resource"
      [] error = 6 -> "invalid argument"
      [] error = 17 -> "invalid character code"
      [] OTHER -> "unknown error"

Call(fn, args, ret) == [fn |-> fn, args |-> args, ret |-> ret]

\* an operation invokes its engine function once, whatever it returns
InvokeRetrying(call) == IF call.ret = 0 THEN <<call>> ELSE <<call, call>>
Invoke(call) == <<call>>

\* ---- exceptions ----
\* nothing raised; `calls` lists the engine calls made while raising
NoException == [kind |-> "none", calls |-> <<>>]

\* Exception(FT_Error error) : std::runtime_error(FT_Error_String(error))
Exception(error) ==
    [kind |-> "Exception",
     what |-> FT_Error_String(error),
     calls |-> <<Call("FT_Error_String", <<error>>, FT_Error_String(error))>>]

\* InvalidCharCodeException(CharCode code)
\*     : Exception(FT_Err_Invalid_Character_Code), _code{code}
InvalidCharCodeException(code) ==
    [kind |-> "InvalidCharCodeException",
     what |-> Exception(FT_Err_Invalid_Character_Code).what,
     calls |-> Exception(FT_Err_Invalid_Character_Code).calls,
     code |-> code]

\* `if (const auto error = ...; error) throw Exception{error};`
ThrowIfErrorSwallow(error) == NoException
ThrowIfErrorWrongCode(error) == IF error # 0 THEN Exception(1) ELSE NoException
ThrowIfError(error) == IF error # 0 THEN Exception(error) ELSE NoException

Op(op, in, raised, ret) == [op |-> op, in |-> in, raised |-> raised, ret |-> ret]

Init ==
    /\ libraries = EmptyBag
    /\ faces = EmptyBag
    /\ glyphs = EmptyBag
    /\ nObjects = 0
    /\ initialized = {}
    /\ opened = {}
    /\ shutdowns = [h \in LibraryHandles |-> 0]
    /\ closes = [h \in FaceHandles |-> 0]
    /\ slot = [s \in Slots |-> EmptySlot]
    /\ longBits \in LongWidths
    /\ calls = <<>>
    /\ last = Op("none", <<>>, NoException, <<>>)

\* ---- Library ----
\* Library() : _library{create_library()}
Library(library) == [_library |-> library]

Library_ctor ==
    /\ nObjects < MaxObjects
    /\ \E error \in EngineCodes :
         LET lib == IF error = 0 THEN Cardinality(initialized) + 1 ELSE 0
             raised == ThrowIfError(error)
         IN  /\ calls' = Invoke(Call("FT_Init_FreeType", <<>>, error)) \o raised.calls
             /\ initialized' = IF error = 0 THEN initialized \cup {lib} ELSE initialized
             /\ IF raised.kind = "none"
                  THEN /\ libraries' = libraries (+) SetToBag({Library(lib)})
                       /\ nObjects' = nObjects + 1
                  ELSE UNCHANGED <<libraries, nObjects>>
             /\ last' = Op("Library", <<>>, raised, <<>>)
    /\ UNCHANGED <<faces, glyphs, opened, shutdowns, closes, slot, longBits>>

\* Library(Library&&) = default: the pointer member is copied, the source keeps it
Library_move ==
    /\ nObjects < MaxObjects
    /\ \E src \in BagToSet(libraries) :
         /\ libraries' = libraries (+) SetToBag({Library(src._library)})
         /\ last' = Op("Library&&", <<src._library>>, NoException, <<>>)
    /\ nObjects' = nObjects + 1
    /\ calls' = <<>>
    /\ UNCHANGED <<faces, glyphs, engine, longBits>>

\* what a destructor raises for the code its release call returned
DtorRaisedThrowing(error) == IF error # 0 THEN Exception(error) ELSE NoException
DtorRaised(error) == NoException

\* ~Library()
Library_dtor ==
    /\ \E self \in BagToSet(libraries), error \in EngineCodes :
         /\ calls' = Invoke(Call("FT_Done_FreeType", <<self._library>>, error))
                        \o DtorRaised(error).calls
         /\ shutdowns' = [shutdowns EXCEPT ![self._library] = @ + 1]
         /\ libraries' = libraries (-) SetToBag({self})
         /\ last' = Op("~Library", <<self._library>>, DtorRaised(error), <<>>)
    /\ UNCHANGED <<faces, glyphs, nObjects, initialized, opened, closes, slot, longBits>>

\* Face(FT_Face face) : _face{face}
Face(face, by) == [_face |-> face, by |-> by]

\* Library::new_face: the std::filesystem::path overload calls the std::string
\* overload, which calls the const char* overload, which calls FT_New_Face
new_face ==
    /\ nObjects < MaxObjects
    /\ \E self \in BagToSet(libraries), overload \in Overloads, path \in Paths,
          index \in FaceIndices, error \in EngineCodes :
         LET face == IF error = 0 THEN Cardinality(opened) + 1 ELSE 0
             raised == ThrowIfError(error)
         IN  /\ calls' = Invoke(Call("FT_New_Face", <<self._library, path, index>>, error))
                            \o raised.calls
             /\ opened' = IF error = 0 THEN opened \cup {face} ELSE opened
             /\ IF raised.kind = "none"
                  THEN /\ faces' = faces (+) SetToBag({Face(face, "new_face")})
                       /\ nObjects' = nObjects + 1
                  ELSE UNCHANGED <<faces, nObjects>>
             /\ last' = Op("new_face", <<overload, path, index>>, raised, <<>>)
    /\ UNCHANGED <<libraries, glyphs, initialized, shutdowns, closes, slot, longBits>>

\* Face(FT_Face) is public: any caller can wrap any handle value
Face_ctor ==
    /\ nObjects < MaxObjects
    /\ \E face \in RawFaceHandles :
         /\ faces' = faces (+) SetToBag({Face(face, "ctor")})
         /\ last' = Op("Face", <<face>>, NoException, <<>>)
    /\ nObjects' = nObjects + 1
    /\ calls' = <<>>
    /\ UNCHANGED <<libraries, glyphs, engine, longBits>>

\* Face(Face&&) = default: the pointer member is copied, the source keeps it
Face_move ==
    /\ nObjects < MaxObjects
    /\ \E src \in BagToSet(faces) :
         /\ faces' = faces (+) SetToBag({Face(src._face, "move")})
         /\ last' = Op("Face&&", <<src._face>>, NoException, <<>>)
    /\ nObjects' = nObjects + 1
    /\ calls' = <<>>
    /\ UNCHANGED <<libraries, glyphs, engine, longBits>>

\* ~Face()
Face_dtor ==
    /\ \E self \in BagToSet(faces), error \in EngineCodes :
         /\ calls' = Invoke(Call("FT_Done_Face", <<self._face>>, error))
                        \o DtorRaised(error).calls
         /\ closes' = [closes EXCEPT ![self._face] = @ + 1]
         /\ faces' = faces (-) SetToBag({self})
         /\ last' = Op("~Face", <<self._face>>, DtorRaised(error), <<>>)
    /\ UNCHANGED <<libraries, glyphs, nObjects, initialized, opened, shutdowns, slot,
                   longBits>>

\* ---- Face ----
\* a uint32_t argument converted to FT_F26Dot6 (signed long) at the FT_Set_Char_Size call
ToLong(x) == IF longBits = 32 /\ x[1] >= Limb \div 2 THEN <<x[1] - Limb, x[2]>> ELSE x

\* Face::set_char_size(width, height, horz_res, vert_res) on the face `self`,
\* recorded as the operation `op` with the caller's arguments `in`
SetCharSize(self, width, height, horz_res, vert_res, op, in) ==
    \E error \in EngineCodes :
       LET raised == ThrowIfError(error)
       IN  /\ calls' = Invoke(Call("FT_Set_Char_Size",
                                   <<self._face, ToLong(width), ToLong(height),
                                     horz_res, vert_res>>,
                                   error)) \o raised.calls
           /\ last' = Op(op, in, raised, <<width, height, horz_res, vert_res>>)

set_char_size ==
    /\ \E self \in BagToSet(faces), a \in SizeInputs :
         SetCharSize(self, a[1], a[2], a[3], a[4], "set_char_size", a)
    /\ UNCHANGED <<objects, engine, longBits>>

\* pt * 64 in uint32_t arithmetic
Points72(pt) ==
    LET p == pt[2] * 72 IN <<(pt[1] * 72 + p \div Limb) % Limb, p % Limb>>
Points(pt) ==
    LET p == pt[2] * PtScale IN <<(pt[1] * PtScale + p \div Limb) % Limb, p % Limb>>

\* the arguments set_char_size(pt, dpi) hands to the four-argument overload
PtArgs(pt, dpi) == <<<<0, 0>>, Points(pt), 0, dpi>>

\* the dpi argument: the caller's, or default_dpi when omitted
DpiArg(omitted, dpi) == IF omitted THEN default_dpi ELSE dpi

\* Face::set_char_size(pt, dpi = default_dpi)
set_char_size_pt ==
    /\ \E self \in BagToSet(faces), pt \in PtInputs, omitted \in BOOLEAN, dpi \in DpiInputs :
         /\ omitted => dpi = 0
         /\ LET a == PtArgs(pt, DpiArg(omitted, dpi))
            IN  SetCharSize(self, a[1], a[2], a[3], a[4], "set_char_size_pt",
                            <<pt, dpi, omitted>>)
    /\ UNCHANGED <<objects, engine, longBits>>

\* `if (!index) throw InvalidCharCodeException{code};`
CharIndexRaisedIndex(index, code) ==
    IF index = 0 THEN InvalidCharCodeException(index) ELSE NoException
CharIndexRaised(index, code) ==
    IF index = 0 THEN InvalidCharCodeException(code) ELSE NoException

\* Face::get_char_index
get_char_index ==
    /\ \E self \in BagToSet(faces), code \in CharCodes, index \in {0} \cup GlyphIndices :
         LET raised == CharIndexRaised(index, code)
         IN  /\ calls' = Invoke(Call("FT_Get_Char_Index", <<self._face, code>>, index))
                            \o raised.calls
             /\ last' = Op("get_char_index", <<code>>, raised,
                           IF raised.kind = "none" THEN <<index>> ELSE <<>>)
    /\ UNCHANGED <<objects, engine, longBits>>

\* ---- Glyph ----
\* Glyph(FT_GlyphSlot slot) : _glyph{slot}. The class stores _glyph only; `of` and
\* `loaded` record the face and the glyph index of the load_glyph call that made
\* the view.
Glyph(glyph, of, loaded) == [_glyph |-> glyph, of |-> of, loaded |-> loaded]

\* _face->glyph: the one slot of the face
FaceGlyph(face) == face

\* what FT_Load_Glyph leaves in the slot
Loaded(index, flags) ==
    [index |-> index, bitmap |-> IF flags = FT_LOAD_DEFAULT THEN -1 ELSE FT_RENDER_MODE_NORMAL]

\* Face::load_glyph
load_glyph ==
    /\ nObjects < MaxObjects
    /\ \E self \in BagToSet(faces), index \in GlyphIndices, flags \in LoadFlags,
          error \in EngineCodes, cleared \in BOOLEAN :
         LET raised == ThrowIfError(error)
         IN  /\ error = 0 => ~cleared
             /\ calls' = Invoke(Call("FT_Load_Glyph", <<self._face, index, flags>>, error))
                            \o raised.calls
             /\ slot' = IF error = 0 THEN [slot EXCEPT ![self._face] = Loaded(index, flags)]
                        ELSE IF cleared THEN [slot EXCEPT ![self._face] = EmptySlot]
                        ELSE slot
             /\ IF raised.kind = "none"
                  THEN /\ glyphs' = glyphs (+)
                            SetToBag({Glyph(FaceGlyph(self._face), self._face, index)})
                       /\ nObjects' = nObjects + 1
                  ELSE UNCHANGED <<glyphs, nObjects>>
             /\ last' = Op("load_glyph", <<self._face, index, flags>>, raised,
                           IF raised.kind = "none"
                           THEN <<Glyph(FaceGlyph(self._face), self._face, index)>>
                           ELSE <<>>)
    /\ UNCHANGED <<libraries, faces, initialized, opened, shutdowns, closes, longBits>>

\* Glyph(Glyph&&) = default
Glyph_move ==
    /\ nObjects < MaxObjects
    /\ \E src \in BagToSet(glyphs) :
         /\ glyphs' = glyphs (+) SetToBag({Glyph(src._glyph, src.of, src.loaded)})
         /\ last' = Op("Glyph&&", <<src._glyph>>, NoException, <<>>)
    /\ nObjects' = nObjects + 1
    /\ calls' = <<>>
    /\ UNCHANGED <<libraries, faces, engine, longBits>>

\* the engine calls of Glyph's destructor: the class declares none, so none
GlyphDtorCallsOwning(self) == <<Call("FT_Done_Face", <<self.of>>, 0)>>
GlyphDtorCalls(self) == <<>>

\* the release counts after the FT_Done_Face calls of `cs`
Closed(cs) ==
    [h \in FaceHandles |->
        closes[h] + Cardinality({i \in 1 .. Len(cs) :
                                   cs[i].fn = "FT_Done_Face" /\ cs[i].args = <<h>>})]

\* the implicit destructor of Glyph
Glyph_dtor ==
    /\ \E self \in BagToSet(glyphs) :
         /\ glyphs' = glyphs (-) SetToBag({self})
         /\ calls' = GlyphDtorCalls(self)
         /\ closes' = Closed(GlyphDtorCalls(self))
         /\ last' = Op("~Glyph", <<self._glyph>>, NoException, <<>>)
    /\ UNCHANGED <<libraries, faces, nObjects, initialized, opened, shutdowns, slot,
                   longBits>>

\* Glyph::metrics, Glyph::bitmap, Glyph::bitmap_left, Glyph::bitmap_top: each
\* reads through _glyph what the slot holds now
GlyphReadSnapshot(self, field) ==
    CASE field = "metrics" -> <<self.loaded>>
      [] field = "bitmap" -> <<self.loaded, slot[self._glyph].bitmap>>
      [] field = "bitmap_left" -> <<self.loaded, slot[self._glyph].bitmap, 0>>
      [] field = "bitmap_top" -> <<self.loaded, slot[self._glyph].bitmap, 1>>
GlyphRead(self, field) ==
    CASE field = "metrics" -> <<slot[self._glyph].index>>
      [] field = "bitmap" -> <<slot[self._glyph].index, slot[self._glyph].bitmap>>
      [] field = "bitmap_left" -> <<slot[self._glyph].index, slot[self._glyph].bitmap, 0>>
      [] field = "bitmap_top" -> <<slot[self._glyph].index, slot[self._glyph].bitmap, 1>>

GlyphFields == {"metrics", "bitmap", "bitmap_left", "bitmap_top"}

Glyph_read ==
    /\ \E self \in BagToSet(glyphs), field \in GlyphFields :
         last' = Op(field, <<self>>, NoException, GlyphRead(self, field))
    /\ calls' = <<>>
    /\ UNCHANGED <<objects, engine, longBits>>

\* Glyph::render
render ==
    /\ \E self \in BagToSet(glyphs), renderMode \in RenderModes, error \in EngineCodes :
         LET raised == ThrowIfError(error)
         IN  /\ calls' = Invoke(Call("FT_Render_Glyph", <<self._glyph, renderMode>>, error))
                            \o raised.calls
             /\ slot' = IF error = 0
                        THEN [slot EXCEPT ![self._glyph].bitmap = renderMode]
                        ELSE slot
             /\ last' = Op("render", <<self, renderMode>>, raised, <<>>)
    /\ UNCHANGED <<objects, initialized, opened, shutdowns, closes, longBits>>

Next ==
    \/ Library_ctor
    \/ Library_move
    \/ Library_dtor
    \/ new_face
    \/ Face_ctor
    \/ Face_move
    \/ Face_dtor
    \/ set_char_size
    \/ set_char_size_pt
    \/ get_char_index
    \/ load_glyph
    \/ Glyph_move
    \/ Glyph_dtor
    \/ Glyph_read
    \/ render

Spec == Init /\ [][Next]_vars

\* ---- properties ----
Raised == last.raised.kind # "none"

\* the engine function each public operation delegates to
EngineFn(op) ==
    CASE op = "Library" -> "FT_Init_FreeType"
      [] op = "new_face" -> "FT_New_Face"
      [] op = "set_char_size" -> "FT_Set_Char_Size"
      [] op = "set_char_size_pt" -> "FT_Set_Char_Size"
      [] op = "get_char_index" -> "FT_Get_Char_Index"
      [] op = "load_glyph" -> "FT_Load_Glyph"
      [] op = "render" -> "FT_Render_Glyph"

FallibleOps == {"Library", "new_face", "set_char_size", "set_char_size_pt",
                "load_glyph", "render"}
PublicOps == FallibleOps \cup {"get_char_index"}
GlyphOps == GlyphFields \cup {"load_glyph", "Glyph&&", "~Glyph", "render"}

NoOwnerLeft == libraries = EmptyBag /\ faces = EmptyBag

\* C1: once every Library and Face object, moved-from ones included, has been
\* destroyed, each handle a successful FT_Init_FreeType or FT_New_Face returned
\* has been released exactly once.
C1_ReleasedExactlyOnce ==
    NoOwnerLeft =>
        /\ \A h \in opened : closes[h] = 1
        /\ \A h \in initialized : shutdowns[h] = 1

\* C2: get_char_index raises InvalidCharCodeException carrying exactly the code
\* it was asked about if and only if FT_Get_Char_Index returned 0; otherwise it
\* returns the engine's index unchanged, so it never returns index 0.
C2_CharIndex ==
    last.op = "get_char_index" =>
        LET index == calls[1].ret
            code == last.in[1]
        IN  /\ calls[1].fn = "FT_Get_Char_Index"
            /\ calls[1].args[2] = code
            /\ (last.raised.kind = "InvalidCharCodeException") <=> (index = 0)
            /\ index = 0 =>
                 /\ last.raised.kind = "InvalidCharCodeException"
                 /\ last.raised.code = code
                 /\ last.ret = <<>>
            /\ index # 0 => last.raised = NoException /\ last.ret = <<index>>
            /\ ~Raised => last.ret # <<0>>

C2_Witness ==
    /\ last.op = "get_char_index"
    /\ last.in = <<8364>>
    /\ last.raised.kind = "InvalidCharCodeException"

\* C3: Library construction, new_face, both set_char_size overloads, load_glyph
\* and render raise Exception if and only if their engine call returned a
\* nonzero code, with the message FT_Error_String gives for exactly that code;
\* on code zero nothing is raised.
C3_RaisesExactlyOnNonzero ==
    last.op \in FallibleOps =>
        LET error == calls[1].ret
        IN  /\ calls[1].fn = EngineFn(last.op)
            /\ (last.raised.kind = "Exception") <=> (error # 0)
            /\ error # 0 => /\ last.raised.kind = "Exception"
                            /\ last.raised.what = FT_Error_String(error)
            /\ error = 0 => last.raised = NoException

C3_Witness ==
    /\ last.op = "render"
    /\ calls[1].ret = 6
    /\ last.raised.kind = "Exception"
    /\ last.raised.what = "invalid argument"

\* C4: a failed FT_New_Face produces no Face and no FT_Done_Face call, a failed
\* FT_Init_FreeType produces no Library and no FT_Done_FreeType call, and a
\* failed FT_Load_Glyph returns no Glyph.
C4_FailedConstruction ==
    [][/\ (last'.op = "new_face" /\ calls'[1].ret # 0) =>
             /\ faces' = faces
             /\ closes' = closes
             /\ \A i \in 1 .. Len(calls') : calls'[i].fn # "FT_Done_Face"
       /\ (last'.op = "Library" /\ calls'[1].ret # 0) =>
             /\ libraries' = libraries
             /\ shutdowns' = shutdowns
             /\ \A i \in 1 .. Len(calls') : calls'[i].fn # "FT_Done_FreeType"
       /\ (last'.op = "load_glyph" /\ calls'[1].ret # 0) =>
             /\ glyphs' = glyphs
             /\ last'.ret = <<>>]_vars

C4_Witness ==
    /\ last.op = "new_face"
    /\ calls[1].ret # 0
    /\ faces = EmptyBag

\* C5: a Face or Library destructor makes its release call on the owned handle,
\* makes no other engine call, and raises nothing whatever code that call
\* returned.
C5_TeardownSwallowed ==
    last.op \in {"~Face", "~Library"} =>
        /\ Len(calls) = 1
        /\ calls[1].fn = (IF last.op = "~Face" THEN "FT_Done_Face" ELSE "FT_Done_FreeType")
        /\ calls[1].args = last.in
        /\ last.raised = NoException

C5_Witness ==
    /\ last.op = "~Face"
    /\ calls[1].ret # 0
    /\ last.raised = NoException

\* pt * 64 as a number, without the 32-bit wrap
ExactPoints(pt) ==
    LET p == pt[2] * 64 IN <<pt[1] * 64 + p \div Limb, p % Limb>>

\* C6 as stated: for every 32-bit pt the engine receives height pt * 64.
C6_HeightIsPtTimes64 ==
    last.op = "set_char_size_pt" => calls[1].args[3] = ExactPoints(last.in[1])

\* C6 amended: set_char_size(pt, dpi) calls the four-argument overload with
\* (0, pt * 64 mod 2^32, 0, dpi), dpi being 96 when omitted; the engine receives
\* these as that overload converts them (width and height to signed long), and
\* the call raises exactly when the engine returns a nonzero code.
C6_UnitConversion ==
    last.op = "set_char_size_pt" =>
        LET pt == last.in[1]
            dpi == IF last.in[3] THEN 96 ELSE last.in[2]
            p == pt[2] * 64
            height == <<(pt[1] * 64 + p \div 65536) % 65536, p % 65536>>
            long == IF longBits = 32 /\ height[1] >= 32768
                    THEN <<height[1] - 65536, height[2]>> ELSE height
        IN  /\ last.ret = <<<<0, 0>>, height, 0, dpi>>
            /\ calls[1].fn = "FT_Set_Char_Size"
            /\ SubSeq(calls[1].args, 2, 5) = <<<<0, 0>>, long, 0, dpi>>
            /\ (last.raised.kind = "Exception") <=> (calls[1].ret # 0)
            /\ height[1] < 32768 /\ ExactPoints(pt)[1] < Limb =>
                 calls[1].args[3] = ExactPoints(pt)

C6_Witness ==
    /\ last.op = "set_char_size_pt"
    /\ last.in = <<<<1536, 1>>, 0, TRUE>>
    /\ last.ret = <<<<0, 0>>, <<32768, 64>>, 0, 96>>

\* C7: while a face's handle is unreleased, every Glyph that load_glyph
\* returned for it reads the face's one slot: after a successful load_glyph
\* each such view shows the index just loaded, after a successful render
\* through one view each shows the rendered bitmap, and two views of the face
\* never read differently.
C7_SharedSlot ==
    \A g \in BagToSet(glyphs) :
        closes[g.of] = 0 =>
            /\ (last.op = "load_glyph" /\ ~Raised /\ last.in[1] = g.of) =>
                   GlyphRead(g, "metrics") = <<last.in[2]>>
            /\ (last.op = "render" /\ ~Raised /\ last.in[1].of = g.of) =>
                   GlyphRead(g, "bitmap")[2] = last.in[2]
            /\ (last.op \in GlyphFields /\ last.in[1].of = g.of) =>
                   last.ret = GlyphRead(g, last.op)
            /\ \A g2 \in BagToSet(glyphs), field \in GlyphFields :
                   g2.of = g.of => GlyphRead(g, field) = GlyphRead(g2, field)

\* the view of the first load, read after the second load, shows the second glyph
C7_Witness ==
    \E g1, g2 \in BagToSet(glyphs) :
        /\ g1.of = g2.of
        /\ g1.of \in opened
        /\ closes[g1.of] = 0
        /\ g1.loaded = 1
        /\ g2.loaded = 2
        /\ last.op = "metrics"
        /\ last.in = <<g1>>
        /\ last.ret = <<2>>

\* C8: no Glyph operation (load_glyph's construction, move, the four reads,
\* render, destruction) makes a release call or changes the owners, the
\* issued handles or the release counts.
C8_GlyphNonOwning ==
    [][last'.op \in GlyphOps =>
          /\ closes' = closes
          /\ shutdowns' = shutdowns
          /\ opened' = opened
          /\ initialized' = initialized
          /\ faces' = faces
          /\ libraries' = libraries
          /\ \A i \in 1 .. Len(calls') :
                 calls'[i].fn \notin {"FT_Done_Face", "FT_Done_FreeType"}]_vars

C8_Witness ==
    /\ last.op = "~Glyph"
    /\ glyphs = EmptyBag
    /\ faces # EmptyBag
    /\ \A h \in FaceHandles : closes[h] = 0

\* C9: every Face object not made by a move wraps a handle that a successful
\* FT_New_Face call of new_face returned.
C9_FaceOnlyFromNewFace ==
    \A f \in BagToSet(faces) :
        f.by # "move" => f.by = "new_face" /\ f._face \in opened

\* C10 as stated: every public operation makes one engine call and no other.
C10_OneEngineCall ==
    last.op \in PublicOps => Len(calls) = 1 /\ calls[1].fn = EngineFn(last.op)

\* C10 amended: every public operation calls its engine function exactly once,
\* first; when that call fails (a nonzero code, index 0 for the lookup) the only
\* further engine call is the one FT_Error_String call that builds the message
\* of the exception, and when it succeeds there is no further call.
C10_OneCallThenMessage ==
    last.op \in PublicOps =>
        LET failed == IF last.op = "get_char_index"
                      THEN calls[1].ret = 0 ELSE calls[1].ret # 0
            code == IF last.op = "get_char_index" THEN 17 ELSE calls[1].ret
        IN  /\ calls[1].fn = EngineFn(last.op)
            /\ Cardinality({i \in 1 .. Len(calls) : calls[i].fn = EngineFn(last.op)}) = 1
            /\ failed => /\ Len(calls) = 2
                         /\ calls[2].fn = "FT_Error_String"
                         /\ calls[2].args = <<code>>
                         /\ Raised
            /\ ~failed => Len(calls) = 1 /\ ~Raised

C10_Witness ==
    /\ last.op = "load_glyph"
    /\ Len(calls) = 2
    /\ calls[1].ret = 6
    /\ calls[2].fn = "FT_Error_String"

====
